---- MODULE Spec2Model ----
(***************************************************************************)
(* Template-tree path resolution (lib/index.ts: findFilePath,              *)
(* generateFileId) and the explorer's tree walker with its callback        *)
(* dispatch (playground-explorer.tsx: TemplateFileTree, TemplateNode).     *)
(*                                                                         *)
(* A string is a sequence of one-character strings, so that joining with   *)
(* "/", appending ".ext", trimming and stripping leading slashes are       *)
(* computed on characters as the code computes them.                       *)
(***************************************************************************)
EXTENDS Integers, Sequences, FiniteSets, TLC

VARIABLES
    data,        \* the top-level item: rootFolder of the lib calls, props.data of the tree
    file,        \* the TemplateFile argument of findFilePath / generateFileId
    done,        \* which of the two lib functions have been called on (file, data)
    res,         \* what findFilePath(file, data) returned
    fileId,      \* what generateFileId(file, data) returned
    rootFlags,   \* TemplateFileTree's useState flags (the root toolbar's two dialogs)
    flags,       \* every rendered TemplateNode's useState dialog flags, by node position
    calls,       \* the callback props invoked by the last handler that ran, in order
    last,        \* the last handler that ran, and whether the callback prop it uses was set
    dialog       \* one create or rename dialog of the explorer: its props and its drafts

vars == <<data, file, done, res, fileId, rootFlags, flags, calls, last, dialog>>
libVars == <<file, done, res, fileId>>

(***************************************************************************)
(* Bounds of the model.                                                    *)
(***************************************************************************)
\* items (files and folders) below the top-level folder of a searched tree
MaxNodes == 3
\* items below the top-level folder of a tree given to the explorer
MaxTreeNodes == 2
\* dialogs open at the same time in the explorer
MaxOpenDialogs == 1

(***************************************************************************)
(* Strings.                                                                *)
(***************************************************************************)
EmptyString == <<>>
Slash == <<"/">>
Dot == <<".">>

\* JavaScript truthiness of a string: only "" is falsy.
Truthy(s) == s # EmptyString

IsWhitespace(c) == c = " "

\* String.prototype.trim
RECURSIVE TrimStart(_)
TrimStart(s) ==
    IF s # <<>> /\ IsWhitespace(Head(s)) THEN TrimStart(Tail(s)) ELSE s

RECURSIVE TrimEnd(_)
TrimEnd(s) ==
    IF s # <<>> /\ IsWhitespace(s[Len(s)]) THEN TrimEnd(SubSeq(s, 1, Len(s) - 1)) ELSE s

Trim(s) == TrimEnd(TrimStart(s))

\* mutant: the separator is put before every part, the first one too
RECURSIVE JoinSlash_SeparatorFirst(_)
JoinSlash_SeparatorFirst(parts) ==
    IF parts = <<>> THEN EmptyString
    ELSE Slash \o parts[1] \o JoinSlash_SeparatorFirst(Tail(parts))

\* Array.prototype.join("/") on an array of strings
RECURSIVE JoinSlash(_)
JoinSlash(parts) ==
    IF parts = <<>> THEN EmptyString
    ELSE IF Len(parts) = 1 THEN parts[1]
    ELSE parts[1] \o Slash \o JoinSlash(Tail(parts))

\* s.replace(/^\/+/, '')
RECURSIVE StripLeadingSlashes(_)
StripLeadingSlashes(s) ==
    IF s # <<>> /\ Head(s) = "/" THEN StripLeadingSlashes(Tail(s)) ELSE s

Range(seq) == {seq[i] : i \in DOMAIN seq}

(***************************************************************************)
(* The data model: TemplateFile, TemplateFolder, TemplateItem.             *)
(***************************************************************************)
TemplateFile(fn, ext, c) == [filename |-> fn, fileExtension |-> ext, content |-> c]
TemplateFolder(n, its) == [folderName |-> n, items |-> its]

\* "folderName" in item
IsFolder(item) == "folderName" \in DOMAIN item

\* null and undefined; a string | null result is Null or Str(s)
Null == [isNull |-> TRUE]
Undefined == [isUndefined |-> TRUE]
Str(s) == [isNull |-> FALSE, str |-> s]
\* mutant: the result of the recursive call is never returned
TruthyRes_Never(r) == FALSE

\* truthiness of a string | null value
TruthyRes(r) == ~r.isNull /\ Truthy(r.str)

(***************************************************************************)
(* lib/index.ts                                                            *)
(***************************************************************************)
\* mutant: the dot is appended even when the extension is empty
FileSegment_AlwaysDot(item) == item.filename \o Dot \o item.fileExtension

\* item.filename + (item.fileExtension ? "." + item.fileExtension : "")
FileSegment(item) ==
    item.filename \o (IF Truthy(item.fileExtension) THEN Dot \o item.fileExtension ELSE EmptyString)

\* mutant: the extensions are not compared
FileMatches_NameOnly(item, f) == item.filename = f.filename

\* mutant: the contents are compared too
FileMatches_WithContent(item, f) ==
    item.filename = f.filename /\ item.fileExtension = f.fileExtension /\ item.content = f.content

\* the comparison of an item that is a file with the searched file
FileMatches(item, f) ==
    item.filename = f.filename /\ item.fileExtension = f.fileExtension

\* the for loop of findFilePath from item i on, with its recursive call
RECURSIVE FindFrom(_, _, _, _)
FindFrom(f, items, i, pathSoFar) ==
    IF i > Len(items) THEN Null
    ELSE LET item == items[i] IN
         IF IsFolder(item)
         THEN LET r == FindFrom(f, item.items, 1, Append(pathSoFar, item.folderName)) IN
              IF TruthyRes(r) THEN r ELSE FindFrom(f, items, i + 1, pathSoFar)
         ELSE IF FileMatches(item, f)
              THEN Str(JoinSlash(Append(pathSoFar, FileSegment(item))))
              ELSE FindFrom(f, items, i + 1, pathSoFar)

\* mutant: the search starts with the name of the folder searched
findFilePath_WithRootName(f, folder) == FindFrom(f, folder.items, 1, <<folder.folderName>>)

\* pathSoFar: string[] = []
findFilePath(f, folder) == FindFrom(f, folder.items, 1, <<>>)

\* the items the for loop of findFilePath takes up from item i on, in order, each
\* by its position below the folder searched; pos is the position of items' holder
RECURSIVE FindVisits(_, _, _, _, _)
FindVisits(f, items, i, pathSoFar, pos) ==
    IF i > Len(items) THEN <<>>
    ELSE LET item == items[i] IN
         <<Append(pos, i)>> \o
         (IF IsFolder(item)
          THEN LET inner == Append(pathSoFar, item.folderName) IN
               FindVisits(f, item.items, 1, inner, Append(pos, i)) \o
               (IF TruthyRes(FindFrom(f, item.items, 1, inner)) THEN <<>>
                ELSE FindVisits(f, items, i + 1, pathSoFar, pos))
          ELSE IF FileMatches(item, f) THEN <<>>
               ELSE FindVisits(f, items, i + 1, pathSoFar, pos))

\* findFilePath(file, rootFolder)?.replace(/^\/+/, '') || ''
ResolvedPath(f, rootFolder) ==
    LET r == findFilePath(f, rootFolder) IN
    IF r.isNull THEN EmptyString
    ELSE LET s == StripLeadingSlashes(r.str) IN IF Truthy(s) THEN s ELSE EmptyString

\* mutant: the extension is not trimmed
ExtensionSuffix_NoTrim(f) ==
    IF Truthy(f.fileExtension) THEN Dot \o f.fileExtension ELSE EmptyString

\* extension ? `.${extension}` : '' with extension = file.fileExtension?.trim()
ExtensionSuffix(f) ==
    LET extension == Trim(f.fileExtension) IN
    IF Truthy(extension) THEN Dot \o extension ELSE EmptyString

\* mutant: the resolved path is left out of the id
generateFileId_NameOnly(f, rootFolder) == f.filename \o ExtensionSuffix(f)

generateFileId(f, rootFolder) ==
    LET path == ResolvedPath(f, rootFolder) IN
    IF Truthy(path)
    THEN path \o Slash \o f.filename \o ExtensionSuffix(f)
    ELSE f.filename \o ExtensionSuffix(f)

(***************************************************************************)
(* The trees and files the lib functions are applied to.                   *)
(***************************************************************************)
FolderNames == {<<"s">>, <<"c">>}
\* (filename, fileExtension) pairs: without extension, with one, one whose filename
\* differs in case only, and one whose extension differs by surrounding whitespace
Files ==
    {TemplateFile(<<"a">>, <<>>, <<>>), TemplateFile(<<"a">>, <<"j">>, <<>>),
     TemplateFile(<<"A">>, <<"j">>, <<>>), TemplateFile(<<"a">>, <<" ", "j">>, <<>>)}

\* the items with exactly k nodes, and the item sequences with exactly n nodes,
\* whose files are taken from fs
RECURSIVE ItemsOfSize(_, _), SeqsOfSize(_, _)
ItemsOfSize(k, fs) ==
    IF k = 1 THEN fs \cup {TemplateFolder(n, <<>>) : n \in FolderNames}
    ELSE {TemplateFolder(n, its) : n \in FolderNames, its \in SeqsOfSize(k - 1, fs)}
SeqsOfSize(n, fs) ==
    IF n = 0 THEN {<<>>}
    ELSE UNION {{<<it>> \o rest : it \in ItemsOfSize(k, fs), rest \in SeqsOfSize(n - k, fs)}
                : k \in 1..n}

\* the folders with at most max nodes below them
FoldersUpTo(max, fs) ==
    UNION {{TemplateFolder(n, its) : n \in FolderNames, its \in SeqsOfSize(k, fs)} : k \in 0..max}

RootFolders == FoldersUpTo(MaxNodes, Files)

(***************************************************************************)
(* The lib functions applied to a tree and a file.                         *)
(***************************************************************************)
\* no dialog is looked at
NoDialog == [kind |-> "none"]

InitPath ==
    /\ data \in RootFolders
    /\ file \in Files
    /\ done = {}
    /\ res = Null
    /\ fileId = EmptyString
    /\ rootFlags = [isNewFileDialogOpen |-> FALSE, isNewFolderDialogOpen |-> FALSE]
    /\ flags = <<>>
    /\ calls = <<>>
    /\ last = [handler |-> "none", provided |-> FALSE]
    /\ dialog = NoDialog

CallFindFilePath ==
    /\ "findFilePath" \notin done
    /\ res' = findFilePath(file, data)
    /\ done' = done \cup {"findFilePath"}
    /\ UNCHANGED <<data, file, fileId, rootFlags, flags, calls, last, dialog>>

CallGenerateFileId ==
    /\ "generateFileId" \notin done
    /\ fileId' = generateFileId(file, data)
    /\ done' = done \cup {"generateFileId"}
    /\ UNCHANGED <<data, file, res, rootFlags, flags, calls, last, dialog>>

NextPath == CallFindFilePath \/ CallGenerateFileId

SpecPath == InitPath /\ [][NextPath]_vars

(***************************************************************************)
(* playground-explorer.tsx: what TemplateFileTree and TemplateNode render. *)
(***************************************************************************)
\* JavaScript truthiness and typeof of a value given as an item
JsTruthy(v) == ~("isNull" \in DOMAIN v) /\ ~("isUndefined" \in DOMAIN v)
JsTypeof(v) ==
    IF "isUndefined" \in DOMAIN v THEN "undefined"
    ELSE IF "typeof" \in DOMAIN v THEN v.typeof
    ELSE "object"

\* a value that is no object: a non-empty string
AString == [typeof |-> "string"]

\* mutant: the type alone is looked at, which is "object" for null
isValidItem_TypeOnly(item) == JsTypeof(item) = "object"

\* item && typeof item === "object"
isValidItem(item) == JsTruthy(item) /\ JsTypeof(item) = "object"

\* data && typeof data === "object" && "folderName" in data
isRootFolder(d) == JsTruthy(d) /\ JsTypeof(d) = "object" /\ IsFolder(d)

\* mutant: the parent's path is dropped
currentPath_FolderOnly(path, folderName) == folderName

\* mutant: the folder's name is put before its parent's path
currentPath_Reversed(path, folderName) ==
    IF Truthy(path) THEN folderName \o Slash \o path ELSE folderName

\* path ? `${path}/${folderName}` : folderName
currentPath(path, folderName) ==
    IF Truthy(path) THEN path \o Slash \o folderName ELSE folderName

\* mutant: the children of the top-level folder are rendered under its name
RootPath_FolderName(d) ==
    IF JsTruthy(d) /\ JsTypeof(d) = "object" /\ IsFolder(d) THEN d.folderName ELSE EmptyString

\* the path prop TemplateFileTree gives to each TemplateNode it renders
RootPath(d) == EmptyString

\* The TemplateNode instances rendered for item: one for the item itself when it is
\* valid, and for a folder those of its children, rendered with level + 1 and
\* path = currentPath. A node is [pos, item, level, path], pos being its place
\* in the tree (the indices from the top-level item down).
\* mutant: a folder node renders no child nodes
TemplateNode_NoChildren(item, level, path, pos) ==
    IF ~isValidItem(item) THEN {}
    ELSE {[pos |-> pos, item |-> item, level |-> level, path |-> path]}

RECURSIVE TemplateNode(_, _, _, _)
TemplateNode(item, level, path, pos) ==
    IF ~isValidItem(item) THEN {}
    ELSE IF ~IsFolder(item)
    THEN {[pos |-> pos, item |-> item, level |-> level, path |-> path]}
    ELSE {[pos |-> pos, item |-> item, level |-> level, path |-> path]}
         \cup UNION {TemplateNode(item.items[i], level + 1,
                                  currentPath(path, item.folderName), Append(pos, i))
                     : i \in 1..Len(item.items)}

\* The nodes TemplateFileTree renders: the children of a root folder, or the item itself.
TemplateFileTree(d) ==
    IF isRootFolder(d)
    THEN UNION {TemplateNode(d.items[i], 0, RootPath(d), <<i>>) : i \in 1..Len(d.items)}
    ELSE TemplateNode(d, 0, RootPath(d), <<>>)

Nodes == TemplateFileTree(data)
FolderNodes == {n \in Nodes : IsFolder(n.item)}
FileNodes == {n \in Nodes : ~IsFolder(n.item)}

\* mutant: the extensions are not compared
isSelected_NameOnly(f, selectedFile) ==
    JsTruthy(selectedFile) /\ selectedFile.filename = f.filename

\* selectedFile && selectedFile.filename === file.filename
\*              && selectedFile.fileExtension === file.fileExtension
isSelected(f, selectedFile) ==
    /\ JsTruthy(selectedFile)
    /\ selectedFile.filename = f.filename
    /\ selectedFile.fileExtension = f.fileExtension

\* the four useState flags of a TemplateNode, as first rendered
ClosedFlags ==
    [isNewFileDialogOpen |-> FALSE, isNewFolderDialogOpen |-> FALSE,
     isRenameDialogOpen |-> FALSE, isDeleteDialogOpen |-> FALSE]

OpenDialogs ==
    Cardinality({k \in DOMAIN rootFlags : rootFlags[k]})
    + Cardinality({pk \in (DOMAIN flags) \X (DOMAIN ClosedFlags) : flags[pk[1]][pk[2]]})

\* a menu item can open one more dialog
MayOpen(isOpen) == isOpen \/ OpenDialogs < MaxOpenDialogs

\* the handler that ran; provided tells whether the callback prop it uses was set
\* (FALSE for a handler that uses none)
Ran(handler, provided) == [handler |-> handler, provided |-> provided]

\* one invocation of a callback prop; from and at tell which handler made it
\* (the root toolbar, or the node at position at) and are not passed to it
Call(cb, from, at, args) == [cb |-> cb, from |-> from, at |-> at, args |-> args]

(***************************************************************************)
(* The explorer's props and the values the dialogs hand to its handlers.   *)
(***************************************************************************)
TreeFiles == {TemplateFile(<<"a">>, <<"j">>, <<>>)}
\* a tree with files of one name at two levels beside a file of another extension,
\* and a tree with an item that is null
TwoLevelTree ==
    TemplateFolder(<<"s">>,
        <<TemplateFile(<<"a">>, <<"j">>, <<>>),
          TemplateFolder(<<"c">>, <<TemplateFile(<<"a">>, <<"j">>, <<"x">>),
                                    TemplateFile(<<"a">>, <<"t">>, <<>>)>>)>>)
TreeWithNullItem == TemplateFolder(<<"s">>, <<Null, TemplateFile(<<"a">>, <<"j">>, <<>>)>>)

TopLevelItems ==
    FoldersUpTo(MaxTreeNodes, TreeFiles) \cup TreeFiles \cup {Null, Undefined, AString}
    \cup {TwoLevelTree, TreeWithNullItem}

\* the values of the selectedFile prop
SelectedFiles ==
    {Undefined, TemplateFile(<<"a">>, <<"j">>, <<>>), TemplateFile(<<"a">>, <<"t">>, <<>>),
     TemplateFile(<<"A">>, <<"j">>, <<>>), TemplateFile(<<"a">>, <<"j">>, <<"y">>)}

InputNames == {<<"n">>, <<"m">>}
InputExtensions == {<<"j">>, <<"t">>}

Init ==
    /\ data \in TopLevelItems
    /\ rootFlags = [isNewFileDialogOpen |-> FALSE, isNewFolderDialogOpen |-> FALSE]
    /\ flags = [pos \in {n.pos : n \in TemplateFileTree(data)} |-> ClosedFlags]
    /\ calls = <<>>
    /\ last = [handler |-> "none", provided |-> FALSE]
    /\ file = TemplateFile(<<"a">>, <<"j">>, <<>>)
    /\ done = {}
    /\ res = Null
    /\ fileId = EmptyString
    /\ dialog = NoDialog

(***************************************************************************)
(* TemplateFileTree: the root toolbar.                                     *)
(***************************************************************************)
handleAddRootFile ==
    /\ MayOpen(rootFlags.isNewFileDialogOpen)
    /\ rootFlags' = [rootFlags EXCEPT !.isNewFileDialogOpen = TRUE]
    /\ calls' = <<>>
    /\ last' = Ran("handleAddRootFile", FALSE)
    /\ UNCHANGED <<data, flags, libVars, dialog>>

handleAddRootFolder ==
    /\ MayOpen(rootFlags.isNewFolderDialogOpen)
    /\ rootFlags' = [rootFlags EXCEPT !.isNewFolderDialogOpen = TRUE]
    /\ calls' = <<>>
    /\ last' = Ran("handleAddRootFolder", FALSE)
    /\ UNCHANGED <<data, flags, libVars, dialog>>

\* mutant: isRootFolder is not looked at
RootCreateFileCalls_NoRootCheck(d, filename, extension, onAddFile) ==
    IF onAddFile
    THEN <<Call("onAddFile", "toolbar", <<>>,
                <<TemplateFile(filename, extension, EmptyString), EmptyString>>)>>
    ELSE <<>>

\* if (onAddFile && isRootFolder) onAddFile({filename, fileExtension: extension, content: ""}, "")
\* (onAddFile tells whether the prop is set)
RootCreateFileCalls(d, filename, extension, onAddFile) ==
    IF onAddFile /\ isRootFolder(d)
    THEN <<Call("onAddFile", "toolbar", <<>>,
                <<TemplateFile(filename, extension, EmptyString), EmptyString>>)>>
    ELSE <<>>

\* mutant: the new file is also pushed onto the items of the top-level folder
RootHandleCreateFile_PushesItem(filename, extension, onAddFile) ==
    /\ rootFlags.isNewFileDialogOpen
    /\ calls' = RootCreateFileCalls(data, filename, extension, onAddFile)
    /\ last' = Ran("RootHandleCreateFile", onAddFile)
    /\ rootFlags' = [rootFlags EXCEPT !.isNewFileDialogOpen = FALSE]
    /\ data' = IF isRootFolder(data)
               THEN [data EXCEPT !.items = Append(@, TemplateFile(filename, extension, EmptyString))]
               ELSE data
    /\ UNCHANGED <<flags, libVars, dialog>>

\* onCreateFile of the root NewFileDialog
RootHandleCreateFile(filename, extension, onAddFile) ==
    /\ rootFlags.isNewFileDialogOpen
    /\ calls' = RootCreateFileCalls(data, filename, extension, onAddFile)
    /\ last' = Ran("RootHandleCreateFile", onAddFile)
    /\ rootFlags' = [rootFlags EXCEPT !.isNewFileDialogOpen = FALSE]
    /\ UNCHANGED <<data, flags, libVars, dialog>>

\* if (onAddFolder && isRootFolder) onAddFolder({folderName, items: []}, "")
RootCreateFolderCalls(d, folderName, onAddFolder) ==
    IF onAddFolder /\ isRootFolder(d)
    THEN <<Call("onAddFolder", "toolbar", <<>>, <<TemplateFolder(folderName, <<>>), EmptyString>>)>>
    ELSE <<>>

\* onCreateFolder of the root NewFolderDialog
RootHandleCreateFolder(folderName, onAddFolder) ==
    /\ rootFlags.isNewFolderDialogOpen
    /\ calls' = RootCreateFolderCalls(data, folderName, onAddFolder)
    /\ last' = Ran("RootHandleCreateFolder", onAddFolder)
    /\ rootFlags' = [rootFlags EXCEPT !.isNewFolderDialogOpen = FALSE]
    /\ UNCHANGED <<data, flags, libVars, dialog>>

\* onClose of the root NewFileDialog
RootCloseNewFile ==
    /\ rootFlags.isNewFileDialogOpen
    /\ rootFlags' = [rootFlags EXCEPT !.isNewFileDialogOpen = FALSE]
    /\ calls' = <<>>
    /\ last' = Ran("RootCloseNewFile", FALSE)
    /\ UNCHANGED <<data, flags, libVars, dialog>>

\* onClose of the root NewFolderDialog
RootCloseNewFolder ==
    /\ rootFlags.isNewFolderDialogOpen
    /\ rootFlags' = [rootFlags EXCEPT !.isNewFolderDialogOpen = FALSE]
    /\ calls' = <<>>
    /\ last' = Ran("RootCloseNewFolder", FALSE)
    /\ UNCHANGED <<data, flags, libVars, dialog>>

(***************************************************************************)
(* TemplateNode: the handlers shared in shape by both branches.            *)
(***************************************************************************)
\* mutant: the rename flag is set along with the flag asked for
OpenDialog_AlsoRename(n, flag) ==
    /\ MayOpen(flags[n.pos][flag])
    /\ flags' = [flags EXCEPT ![n.pos][flag] = TRUE, ![n.pos].isRenameDialogOpen = TRUE]
    /\ calls' = <<>>
    /\ UNCHANGED <<data, rootFlags, libVars, dialog>>

\* a menu item's handler: setIs<flag>(true)
OpenDialog(n, flag) ==
    /\ MayOpen(flags[n.pos][flag])
    /\ flags' = [flags EXCEPT ![n.pos][flag] = TRUE]
    /\ calls' = <<>>
    /\ UNCHANGED <<data, rootFlags, libVars, dialog>>

\* a dialog's onClose, or setIsOpen(false): setIs<flag>(false)
CloseDialog(n, flag) ==
    /\ flags[n.pos][flag]
    /\ flags' = [flags EXCEPT ![n.pos][flag] = FALSE]
    /\ calls' = <<>>
    /\ UNCHANGED <<data, rootFlags, libVars, dialog>>

\* mutant: the flag is left as it is
ConfirmDialog_LeavesOpen(n, flag, made) ==
    /\ flags[n.pos][flag]
    /\ calls' = made
    /\ UNCHANGED <<data, rootFlags, flags, libVars, dialog>>

\* mutant: the flag is reset only where the callback is invoked
ConfirmDialog_ClosesOnlyAfterCall(n, flag, made) ==
    /\ flags[n.pos][flag]
    /\ calls' = made
    /\ flags' = IF made # <<>> THEN [flags EXCEPT ![n.pos][flag] = FALSE] ELSE flags
    /\ UNCHANGED <<data, rootFlags, libVars, dialog>>

\* a dialog's confirm handler: the calls it makes, then setIs<flag>(false)
ConfirmDialog(n, flag, made) ==
    /\ flags[n.pos][flag]
    /\ calls' = made
    /\ flags' = [flags EXCEPT ![n.pos][flag] = FALSE]
    /\ UNCHANGED <<data, rootFlags, libVars, dialog>>

(***************************************************************************)
(* TemplateNode, file branch.                                              *)
(***************************************************************************)
FileHandleRename(n) ==
    /\ ~IsFolder(n.item)
    /\ OpenDialog(n, "isRenameDialogOpen")
    /\ last' = Ran("FileHandleRename", FALSE)

FileHandleDelete(n) ==
    /\ ~IsFolder(n.item)
    /\ OpenDialog(n, "isDeleteDialogOpen")
    /\ last' = Ran("FileHandleDelete", FALSE)

\* mutant: the file's own name is appended to the path
FileConfirmDeleteCalls_WithName(n, onDeleteFile) ==
    IF onDeleteFile
    THEN <<Call("onDeleteFile", "node", n.pos,
                <<n.item, currentPath(n.path, n.item.filename)>>)>>
    ELSE <<>>

\* onDeleteFile?.(file, path)
FileConfirmDeleteCalls(n, onDeleteFile) ==
    IF onDeleteFile THEN <<Call("onDeleteFile", "node", n.pos, <<n.item, n.path>>)>> ELSE <<>>

FileConfirmDelete(n, onDeleteFile) ==
    /\ ~IsFolder(n.item)
    /\ last' = Ran("FileConfirmDelete", onDeleteFile)
    /\ ConfirmDialog(n, "isDeleteDialogOpen", FileConfirmDeleteCalls(n, onDeleteFile))

\* onRenameFile?.(file, newFilename, newExtension, path)
FileRenameSubmitCalls(n, newFilename, newExtension, onRenameFile) ==
    IF onRenameFile
    THEN <<Call("onRenameFile", "node", n.pos, <<n.item, newFilename, newExtension, n.path>>)>>
    ELSE <<>>

FileHandleRenameSubmit(n, newFilename, newExtension, onRenameFile) ==
    /\ ~IsFolder(n.item)
    /\ last' = Ran("FileHandleRenameSubmit", onRenameFile)
    /\ ConfirmDialog(n, "isRenameDialogOpen",
                     FileRenameSubmitCalls(n, newFilename, newExtension, onRenameFile))

FileCloseRename(n) ==
    /\ ~IsFolder(n.item)
    /\ CloseDialog(n, "isRenameDialogOpen")
    /\ last' = Ran("FileCloseRename", FALSE)

FileCancelDelete(n) ==
    /\ ~IsFolder(n.item)
    /\ CloseDialog(n, "isDeleteDialogOpen")
    /\ last' = Ran("FileCancelDelete", FALSE)

\* onClick of the file's SidebarMenuButton: onFileSelect?.(file)
FileClick(n, onFileSelect) ==
    /\ ~IsFolder(n.item)
    /\ calls' = IF onFileSelect THEN <<Call("onFileSelect", "node", n.pos, <<n.item>>)>> ELSE <<>>
    /\ last' = Ran("FileClick", onFileSelect)
    /\ UNCHANGED <<data, rootFlags, flags, libVars, dialog>>

(***************************************************************************)
(* TemplateNode, folder branch.                                            *)
(***************************************************************************)
FolderHandleAddFile(n) ==
    /\ IsFolder(n.item)
    /\ OpenDialog(n, "isNewFileDialogOpen")
    /\ last' = Ran("FolderHandleAddFile", FALSE)

FolderHandleAddFolder(n) ==
    /\ IsFolder(n.item)
    /\ OpenDialog(n, "isNewFolderDialogOpen")
    /\ last' = Ran("FolderHandleAddFolder", FALSE)

FolderHandleRename(n) ==
    /\ IsFolder(n.item)
    /\ OpenDialog(n, "isRenameDialogOpen")
    /\ last' = Ran("FolderHandleRename", FALSE)

FolderHandleDelete(n) ==
    /\ IsFolder(n.item)
    /\ OpenDialog(n, "isDeleteDialogOpen")
    /\ last' = Ran("FolderHandleDelete", FALSE)

\* mutant: with onDeleteFolder unset, onDeleteFile is invoked in its place
FolderConfirmDeleteCalls_FallsBack(n, onDeleteFolder) ==
    IF onDeleteFolder THEN <<Call("onDeleteFolder", "node", n.pos, <<n.item, n.path>>)>>
    ELSE <<Call("onDeleteFile", "node", n.pos, <<n.item, n.path>>)>>

\* onDeleteFolder?.(folder, path)
FolderConfirmDeleteCalls(n, onDeleteFolder) ==
    IF onDeleteFolder THEN <<Call("onDeleteFolder", "node", n.pos, <<n.item, n.path>>)>> ELSE <<>>

FolderConfirmDelete(n, onDeleteFolder) ==
    /\ IsFolder(n.item)
    /\ last' = Ran("FolderConfirmDelete", onDeleteFolder)
    /\ ConfirmDialog(n, "isDeleteDialogOpen", FolderConfirmDeleteCalls(n, onDeleteFolder))

\* if (onAddFile) onAddFile({filename, fileExtension: extension, content: ""}, currentPath)
FolderCreateFileCalls(n, filename, extension, onAddFile) ==
    IF onAddFile
    THEN <<Call("onAddFile", "node", n.pos,
                <<TemplateFile(filename, extension, EmptyString),
                  currentPath(n.path, n.item.folderName)>>)>>
    ELSE <<>>

FolderHandleCreateFile(n, filename, extension, onAddFile) ==
    /\ IsFolder(n.item)
    /\ last' = Ran("FolderHandleCreateFile", onAddFile)
    /\ ConfirmDialog(n, "isNewFileDialogOpen",
                     FolderCreateFileCalls(n, filename, extension, onAddFile))

\* if (onAddFolder) onAddFolder({folderName, items: []}, currentPath)
FolderCreateFolderCalls(n, folderName, onAddFolder) ==
    IF onAddFolder
    THEN <<Call("onAddFolder", "node", n.pos,
                <<TemplateFolder(folderName, <<>>), currentPath(n.path, n.item.folderName)>>)>>
    ELSE <<>>

FolderHandleCreateFolder(n, folderName, onAddFolder) ==
    /\ IsFolder(n.item)
    /\ last' = Ran("FolderHandleCreateFolder", onAddFolder)
    /\ ConfirmDialog(n, "isNewFolderDialogOpen",
                     FolderCreateFolderCalls(n, folderName, onAddFolder))

\* mutant: currentPath is passed in place of path
FolderRenameSubmitCalls_CurrentPath(n, newFolderName, onRenameFolder) ==
    IF onRenameFolder
    THEN <<Call("onRenameFolder", "node", n.pos,
                <<n.item, newFolderName, currentPath(n.path, n.item.folderName)>>)>>
    ELSE <<>>

\* onRenameFolder?.(folder, newFolderName, path)
FolderRenameSubmitCalls(n, newFolderName, onRenameFolder) ==
    IF onRenameFolder
    THEN <<Call("onRenameFolder", "node", n.pos, <<n.item, newFolderName, n.path>>)>>
    ELSE <<>>

FolderHandleRenameSubmit(n, newFolderName, onRenameFolder) ==
    /\ IsFolder(n.item)
    /\ last' = Ran("FolderHandleRenameSubmit", onRenameFolder)
    /\ ConfirmDialog(n, "isRenameDialogOpen",
                     FolderRenameSubmitCalls(n, newFolderName, onRenameFolder))

FolderCloseNewFile(n) ==
    /\ IsFolder(n.item)
    /\ CloseDialog(n, "isNewFileDialogOpen")
    /\ last' = Ran("FolderCloseNewFile", FALSE)

FolderCloseNewFolder(n) ==
    /\ IsFolder(n.item)
    /\ CloseDialog(n, "isNewFolderDialogOpen")
    /\ last' = Ran("FolderCloseNewFolder", FALSE)

FolderCloseRename(n) ==
    /\ IsFolder(n.item)
    /\ CloseDialog(n, "isRenameDialogOpen")
    /\ last' = Ran("FolderCloseRename", FALSE)

FolderCancelDelete(n) ==
    /\ IsFolder(n.item)
    /\ CloseDialog(n, "isDeleteDialogOpen")
    /\ last' = Ran("FolderCancelDelete", FALSE)

(***************************************************************************)
(* The explorer: any handler of the toolbar or of a rendered node.         *)
(***************************************************************************)
Next ==
    \/ handleAddRootFile
    \/ handleAddRootFolder
    \/ \E fn \in InputNames, ext \in InputExtensions, cb \in BOOLEAN : RootHandleCreateFile(fn, ext, cb)
    \/ \E fn \in InputNames, cb \in BOOLEAN : RootHandleCreateFolder(fn, cb)
    \/ RootCloseNewFile
    \/ RootCloseNewFolder
    \/ \E n \in Nodes : FileHandleRename(n)
    \/ \E n \in Nodes : FileHandleDelete(n)
    \/ \E n \in Nodes, cb \in BOOLEAN : FileConfirmDelete(n, cb)
    \/ \E n \in Nodes, fn \in InputNames, ext \in InputExtensions, cb \in BOOLEAN :
          FileHandleRenameSubmit(n, fn, ext, cb)
    \/ \E n \in Nodes : FileCloseRename(n)
    \/ \E n \in Nodes : FileCancelDelete(n)
    \/ \E n \in Nodes, cb \in BOOLEAN : FileClick(n, cb)
    \/ \E n \in Nodes : FolderHandleAddFile(n)
    \/ \E n \in Nodes : FolderHandleAddFolder(n)
    \/ \E n \in Nodes : FolderHandleRename(n)
    \/ \E n \in Nodes : FolderHandleDelete(n)
    \/ \E n \in Nodes, cb \in BOOLEAN : FolderConfirmDelete(n, cb)
    \/ \E n \in Nodes, fn \in InputNames, ext \in InputExtensions, cb \in BOOLEAN :
          FolderHandleCreateFile(n, fn, ext, cb)
    \/ \E n \in Nodes, fn \in InputNames, cb \in BOOLEAN : FolderHandleCreateFolder(n, fn, cb)
    \/ \E n \in Nodes, fn \in InputNames, cb \in BOOLEAN : FolderHandleRenameSubmit(n, fn, cb)
    \/ \E n \in Nodes : FolderCloseNewFile(n)
    \/ \E n \in Nodes : FolderCloseNewFolder(n)
    \/ \E n \in Nodes : FolderCloseRename(n)
    \/ \E n \in Nodes : FolderCancelDelete(n)

Spec == Init /\ [][Next]_vars

(***************************************************************************)
(* The core as a whole: the lib functions called on the tree the explorer  *)
(* shows, at any time between the explorer's handlers.                     *)
(***************************************************************************)
InitCore ==
    /\ data \in FoldersUpTo(MaxTreeNodes, TreeFiles) \cup {TwoLevelTree}
    /\ rootFlags = [isNewFileDialogOpen |-> FALSE, isNewFolderDialogOpen |-> FALSE]
    /\ flags = [pos \in {n.pos : n \in TemplateFileTree(data)} |-> ClosedFlags]
    /\ calls = <<>>
    /\ last = [handler |-> "none", provided |-> FALSE]
    /\ file \in TreeFiles
    /\ done = {}
    /\ res = Null
    /\ fileId = EmptyString
    /\ dialog = NoDialog

NextCore == NextPath \/ Next

SpecCore == InitCore /\ [][NextCore]_vars

(***************************************************************************)
(* dialogs/*.tsx: one create or rename dialog as the explorer renders it.  *)
(* Its isOpen prop is the flag of its host (the root toolbar or a node),   *)
(* its onClose resets that flag, and its onCreateFile / onCreateFolder /   *)
(* onRename prop is the host's handler, which makes the host's calls.      *)
(***************************************************************************)
\* useState("js") of NewFileDialog, and its fallback extension
DefaultExtension == <<"j", "s">>

\* what the user can have typed into the name input and into the extension input
TypedNames == {<<>>, <<" ">>, <<"n">>, <<" ", "n", " ">>}
TypedExtensions == {<<>>, <<" ">>, <<" ", "t">>}

DialogTrees == FoldersUpTo(MaxTreeNodes, TreeFiles) \cup TreeFiles

\* the dialogs the explorer renders over d: two in the toolbar, four for every
\* folder node, two for every file node
RenderedDialogs(d) ==
    {[kind |-> k, from |-> "toolbar", at |-> <<>>] : k \in {"NewFileDialog", "NewFolderDialog"}}
    \cup {[kind |-> k, from |-> "node", at |-> n.pos] :
              n \in {m \in TemplateFileTree(d) : IsFolder(m.item)},
              k \in {"NewFileDialog", "NewFolderDialog", "RenameFolderDialog", "DeleteDialog"}}
    \cup {[kind |-> k, from |-> "node", at |-> n.pos] :
              n \in {m \in TemplateFileTree(d) : ~IsFolder(m.item)},
              k \in {"RenameFileDialog", "DeleteDialog"}}

\* the dialogs that have a name input
FormDialogs == {"NewFileDialog", "NewFolderDialog", "RenameFolderDialog", "RenameFileDialog"}

\* a ConfirmationDialog, which the explorer does not render: its isOpen prop is
\* held by an owner that is not among the sources
StandaloneConfirmation ==
    [kind |-> "ConfirmationDialog", from |-> "standalone", at |-> <<>>,
     name |-> EmptyString, extension |-> EmptyString, open |-> FALSE]

\* the node that hosts the dialog
NodeAt(pos) == CHOOSE n \in Nodes : n.pos = pos

\* currentFolderName={folderName} of RenameFolderDialog
currentFolderName(r) == NodeAt(r.at).item.folderName

\* currentFilename={file.filename} and currentExtension={file.fileExtension}
currentFilename(r) == NodeAt(r.at).item.filename
currentExtension(r) == NodeAt(r.at).item.fileExtension

\* the drafts of a dialog as first rendered (its useState initial values)
InitialDrafts(r) ==
    CASE r.kind = "NewFileDialog" -> [name |-> EmptyString, extension |-> DefaultExtension]
      [] r.kind = "NewFolderDialog" -> [name |-> EmptyString, extension |-> EmptyString]
      [] r.kind = "RenameFolderDialog" ->
            [name |-> currentFolderName(r), extension |-> EmptyString]
      [] r.kind = "RenameFileDialog" ->
            [name |-> currentFilename(r), extension |-> currentExtension(r)]
      [] OTHER -> [name |-> EmptyString, extension |-> EmptyString]

\* the host's useState flag that is the dialog's isOpen prop
FlagOf(kind) ==
    CASE kind = "NewFileDialog" -> "isNewFileDialogOpen"
      [] kind = "NewFolderDialog" -> "isNewFolderDialogOpen"
      [] kind = "DeleteDialog" -> "isDeleteDialogOpen"
      [] OTHER -> "isRenameDialogOpen"

isOpen ==
    IF dialog.from = "standalone" THEN dialog.open
    ELSE IF dialog.from = "toolbar" THEN rootFlags[FlagOf(dialog.kind)]
    ELSE flags[dialog.at][FlagOf(dialog.kind)]

\* setIs<flag>(v) in the dialog's host
SetHostFlag(v) ==
    IF dialog.from = "toolbar"
    THEN rootFlags' = [rootFlags EXCEPT ![FlagOf(dialog.kind)] = v] /\ UNCHANGED flags
    ELSE flags' = [flags EXCEPT ![dialog.at][FlagOf(dialog.kind)] = v] /\ UNCHANGED rootFlags

InitDialog ==
    /\ data \in DialogTrees
    /\ rootFlags = [isNewFileDialogOpen |-> FALSE, isNewFolderDialogOpen |-> FALSE]
    /\ flags = [pos \in {n.pos : n \in TemplateFileTree(data)} |-> ClosedFlags]
    /\ \/ \E r \in RenderedDialogs(data) :
             dialog = [kind |-> r.kind, from |-> r.from, at |-> r.at,
                       name |-> InitialDrafts(r).name, extension |-> InitialDrafts(r).extension]
       \/ dialog = StandaloneConfirmation
    /\ calls = <<>>
    /\ last = [handler |-> "none", provided |-> FALSE]
    /\ file = TemplateFile(<<"a">>, <<"j">>, <<>>)
    /\ done = {}
    /\ res = Null
    /\ fileId = EmptyString

\* mutant: the draft is the useState initial value and what is typed, no effect
RenameFolderDialogEffect_None(r, open, current) == r

\* useEffect of RenameFolderDialog, run after a render in which isOpen or
\* currentFolderName has changed, open and current being their new values:
\* if (isOpen) setFolderName(currentFolderName)
RenameFolderDialogEffect(r, open, current) ==
    IF open THEN [r EXCEPT !.name = current] ELSE r

\* RenameFileDialog takes both drafts from its props when it becomes open
RenameFileDialogEffect(r) ==
    [r EXCEPT !.name = currentFilename(r), !.extension = currentExtension(r)]

\* the menu item of the host that opens the dialog (handleAddRootFile, handleAddFile,
\* handleAddFolder, handleRename, ...), and the dialog's effect on the changed isOpen
TriggerDialog ==
    /\ dialog.from # "standalone"
    /\ SetHostFlag(TRUE)
    /\ dialog' = IF isOpen THEN dialog
                 ELSE IF dialog.kind = "RenameFolderDialog"
                      THEN RenameFolderDialogEffect(dialog, TRUE, currentFolderName(dialog))
                 ELSE IF dialog.kind = "RenameFileDialog" THEN RenameFileDialogEffect(dialog)
                 ELSE dialog
    /\ calls' = <<>>
    /\ last' = Ran("TriggerDialog", FALSE)
    /\ UNCHANGED <<data, libVars>>

\* the tree with the folder at pos named name
RECURSIVE RenamedAt(_, _, _)
RenamedAt(it, pos, name) ==
    IF pos = <<>> THEN [it EXCEPT !.folderName = name]
    ELSE [it EXCEPT !.items[pos[1]] = RenamedAt(it.items[pos[1]], Tail(pos), name)]

\* the owner renders the tree anew with the dialog's folder renamed, so that
\* currentFolderName={folder.folderName} changes: the effect runs, and with a
\* closed dialog its body does nothing
RerenderWithFolderName(name) ==
    /\ dialog.kind = "RenameFolderDialog"
    /\ name # currentFolderName(dialog)
    /\ data' = RenamedAt(data, dialog.at, name)
    /\ dialog' = RenameFolderDialogEffect(dialog, isOpen, name)
    /\ calls' = <<>>
    /\ last' = Ran("RerenderWithFolderName", FALSE)
    /\ UNCHANGED <<rootFlags, flags, libVars>>

\* onChange of the name input: setFilename / setFolderName(e.target.value)
setFilename(value) ==
    /\ isOpen
    /\ dialog.kind \in FormDialogs
    /\ dialog' = [dialog EXCEPT !.name = value]
    /\ calls' = <<>>
    /\ last' = Ran("setFilename", FALSE)
    /\ UNCHANGED <<data, rootFlags, flags, libVars>>

\* onChange of the extension input: setExtension(e.target.value)
setExtension(value) ==
    /\ isOpen
    /\ dialog.kind \in {"NewFileDialog", "RenameFileDialog"}
    /\ dialog' = [dialog EXCEPT !.extension = value]
    /\ calls' = <<>>
    /\ last' = Ran("setExtension", FALSE)
    /\ UNCHANGED <<data, rootFlags, flags, libVars>>

\* the Cancel button and onOpenChange: onClose, which is the host's setIs<flag>(false)
CancelDialog ==
    /\ isOpen
    /\ dialog.kind \in FormDialogs
    /\ SetHostFlag(FALSE)
    /\ calls' = <<Call("onClose", "dialog", dialog.at, <<>>)>>
    /\ last' = Ran("CancelDialog", FALSE)
    /\ UNCHANGED <<data, dialog, libVars>>

\* mutant: the trimmed extension is passed on without the fallback to "js"
NewFileDialogSubmitCalls_NoFallback(filename, extension) ==
    IF Truthy(Trim(filename))
    THEN <<Call("onCreateFile", "dialog", dialog.at, <<Trim(filename), Trim(extension)>>)>>
    ELSE <<>>

\* handleSubmit of NewFileDialog: the invocations of its onCreateFile prop
\* if (filename.trim()) onCreateFile(filename.trim(), extension.trim() || "js")
NewFileDialogSubmitCalls(filename, extension) ==
    IF Truthy(Trim(filename))
    THEN <<Call("onCreateFile", "dialog", dialog.at,
                <<Trim(filename),
                  IF Truthy(Trim(extension)) THEN Trim(extension) ELSE DefaultExtension>>)>>
    ELSE <<>>

\* onCreateFile={handleCreateFile}: the calls of the host's handler
HostHandleCreateFile(filename, extension, onAddFile) ==
    IF dialog.from = "toolbar"
    THEN RootCreateFileCalls(data, filename, extension, onAddFile)
    ELSE FolderCreateFileCalls(NodeAt(dialog.at), filename, extension, onAddFile)

\* mutant: the extension draft is left as typed
NewFileDialogResetDraft_NameOnly(r) == [r EXCEPT !.name = EmptyString]

\* handleSubmit of NewFileDialog after the call: setFilename(""); setExtension("js")
NewFileDialogResetDraft(r) == [r EXCEPT !.name = EmptyString, !.extension = DefaultExtension]

\* the form of NewFileDialog is submitted; onAddFile tells whether the prop is set
NewFileDialogHandleSubmit(onAddFile) ==
    /\ dialog.kind = "NewFileDialog"
    /\ isOpen
    /\ LET made == NewFileDialogSubmitCalls(dialog.name, dialog.extension) IN
       IF Len(made) > 0
       THEN /\ calls' = made \o HostHandleCreateFile(made[1].args[1], made[1].args[2], onAddFile)
            /\ SetHostFlag(FALSE)
            /\ dialog' = NewFileDialogResetDraft(dialog)
       ELSE /\ calls' = <<>>
            /\ UNCHANGED <<rootFlags, flags, dialog>>
    /\ last' = Ran("NewFileDialogHandleSubmit", onAddFile)
    /\ UNCHANGED <<data, libVars>>

\* mutant: the folder name is passed on without the check for a blank one
NewFolderDialogSubmitCalls_NoGuard(folderName) ==
    <<Call("onCreateFolder", "dialog", dialog.at, <<Trim(folderName)>>)>>

\* handleSubmit of NewFolderDialog: the invocations of its onCreateFolder prop
\* if (folderName.trim()) onCreateFolder(folderName.trim())
NewFolderDialogSubmitCalls(folderName) ==
    IF Truthy(Trim(folderName))
    THEN <<Call("onCreateFolder", "dialog", dialog.at, <<Trim(folderName)>>)>>
    ELSE <<>>

\* onCreateFolder={handleCreateFolder}: the calls of the host's handler
HostHandleCreateFolder(folderName, onAddFolder) ==
    IF dialog.from = "toolbar"
    THEN RootCreateFolderCalls(data, folderName, onAddFolder)
    ELSE FolderCreateFolderCalls(NodeAt(dialog.at), folderName, onAddFolder)

\* disabled={!folderName.trim()} of the Create button of NewFolderDialog
CreateDisabled(r) == ~Truthy(Trim(r.name))

NewFolderDialogHandleSubmit(onAddFolder) ==
    /\ dialog.kind = "NewFolderDialog"
    /\ isOpen
    /\ LET made == NewFolderDialogSubmitCalls(dialog.name) IN
       IF Len(made) > 0
       THEN /\ calls' = made \o HostHandleCreateFolder(made[1].args[1], onAddFolder)
            /\ SetHostFlag(FALSE)
            /\ dialog' = [dialog EXCEPT !.name = EmptyString]
       ELSE /\ calls' = <<>>
            /\ UNCHANGED <<rootFlags, flags, dialog>>
    /\ last' = Ran("NewFolderDialogHandleSubmit", onAddFolder)
    /\ UNCHANGED <<data, libVars>>

\* mutant: the folder name is passed on as typed
RenameFolderDialogSubmitCalls_NoTrim(folderName) ==
    IF Truthy(Trim(folderName))
    THEN <<Call("onRename", "dialog", dialog.at, <<folderName>>)>>
    ELSE <<>>

\* handleSubmit of RenameFolderDialog: the invocations of its onRename prop
\* if (folderName.trim()) onRename(folderName.trim())
RenameFolderDialogSubmitCalls(folderName) ==
    IF Truthy(Trim(folderName))
    THEN <<Call("onRename", "dialog", dialog.at, <<Trim(folderName)>>)>>
    ELSE <<>>

\* onRename={handleRenameSubmit} of a folder node; the draft is left as it is
RenameFolderDialogHandleSubmit(onRenameFolder) ==
    /\ dialog.kind = "RenameFolderDialog"
    /\ isOpen
    /\ LET made == RenameFolderDialogSubmitCalls(dialog.name) IN
       IF Len(made) > 0
       THEN /\ calls' = made \o FolderRenameSubmitCalls(NodeAt(dialog.at), made[1].args[1],
                                                       onRenameFolder)
            /\ SetHostFlag(FALSE)
       ELSE /\ calls' = <<>>
            /\ UNCHANGED <<rootFlags, flags>>
    /\ last' = Ran("RenameFolderDialogHandleSubmit", onRenameFolder)
    /\ UNCHANGED <<data, dialog, libVars>>

\* RenameFileDialog's submit: onRename(trimmed filename, trimmed extension or, for a
\* blank one, currentExtension), not invoked for a blank filename
RenameFileDialogSubmitCalls(filename, extension) ==
    IF Truthy(Trim(filename))
    THEN <<Call("onRename", "dialog", dialog.at,
                <<Trim(filename),
                  IF Truthy(Trim(extension)) THEN Trim(extension) ELSE currentExtension(dialog)>>)>>
    ELSE <<>>

\* onRename={handleRenameSubmit} of a file node
RenameFileDialogHandleSubmit(onRenameFile) ==
    /\ dialog.kind = "RenameFileDialog"
    /\ isOpen
    /\ LET made == RenameFileDialogSubmitCalls(dialog.name, dialog.extension) IN
       IF Len(made) > 0
       THEN /\ calls' = made \o FileRenameSubmitCalls(NodeAt(dialog.at), made[1].args[1],
                                                     made[1].args[2], onRenameFile)
            /\ SetHostFlag(FALSE)
       ELSE /\ calls' = <<>>
            /\ UNCHANGED <<rootFlags, flags>>
    /\ last' = Ran("RenameFileDialogHandleSubmit", onRenameFile)
    /\ UNCHANGED <<data, dialog, libVars>>

\* onConfirm={confirmDelete}: the calls of the host's handler
HostConfirmDelete(cb) ==
    IF IsFolder(NodeAt(dialog.at).item)
    THEN FolderConfirmDeleteCalls(NodeAt(dialog.at), cb)
    ELSE FileConfirmDeleteCalls(NodeAt(dialog.at), cb)

\* AlertDialogAction of DeleteDialog: onClick={onConfirm}; cb tells whether the
\* host's onDeleteFile / onDeleteFolder prop is set
DeleteDialogConfirm(cb) ==
    /\ dialog.kind = "DeleteDialog"
    /\ isOpen
    /\ calls' = <<Call("onConfirm", "dialog", dialog.at, <<>>)>> \o HostConfirmDelete(cb)
    /\ SetHostFlag(FALSE)
    /\ last' = Ran("DeleteDialogConfirm", cb)
    /\ UNCHANGED <<data, dialog, libVars>>

\* mutant: the cancel of DeleteDialog runs onConfirm before it closes
DeleteDialogCancelCalls_Confirms ==
    <<Call("onConfirm", "dialog", dialog.at, <<>>),
      Call("setIsOpen", "dialog", dialog.at, <<FALSE>>)>>

\* AlertDialogCancel and the backdrop of DeleteDialog: onOpenChange={setIsOpen}
\* with false
DeleteDialogCancelCalls == <<Call("setIsOpen", "dialog", dialog.at, <<FALSE>>)>>

DeleteDialogCancel ==
    /\ dialog.kind = "DeleteDialog"
    /\ isOpen
    /\ calls' = DeleteDialogCancelCalls
    /\ SetHostFlag(FALSE)
    /\ last' = Ran("DeleteDialogCancel", FALSE)
    /\ UNCHANGED <<data, dialog, libVars>>

\* the owner of the ConfirmationDialog opens it
ConfirmationDialogOpen ==
    /\ dialog.kind = "ConfirmationDialog"
    /\ ~dialog.open
    /\ dialog' = [dialog EXCEPT !.open = TRUE]
    /\ calls' = <<>>
    /\ last' = Ran("ConfirmationDialogOpen", FALSE)
    /\ UNCHANGED <<data, rootFlags, flags, libVars>>

\* a button of ConfirmationDialog, onClick={onCancel} or onClick={onConfirm}, or
\* its backdrop, onOpenChange={setIsOpen} with false; whether what is called
\* closes the dialog is its owner's choice
ConfirmationDialogClick(made, handler, closes) ==
    /\ dialog.kind = "ConfirmationDialog"
    /\ dialog.open
    /\ calls' = made
    /\ dialog' = [dialog EXCEPT !.open = ~closes]
    /\ last' = Ran(handler, FALSE)
    /\ UNCHANGED <<data, rootFlags, flags, libVars>>

ConfirmationDialogCancel(closes) ==
    ConfirmationDialogClick(<<Call("onCancel", "dialog", dialog.at, <<>>)>>,
                            "ConfirmationDialogCancel", closes)

ConfirmationDialogBackdrop(closes) ==
    ConfirmationDialogClick(<<Call("setIsOpen", "dialog", dialog.at, <<FALSE>>)>>,
                            "ConfirmationDialogBackdrop", closes)

ConfirmationDialogConfirm(closes) ==
    ConfirmationDialogClick(<<Call("onConfirm", "dialog", dialog.at, <<>>)>>,
                            "ConfirmationDialogConfirm", closes)

NextDialog ==
    \/ \E cb \in BOOLEAN : DeleteDialogConfirm(cb)
    \/ DeleteDialogCancel
    \/ ConfirmationDialogOpen
    \/ \E closes \in BOOLEAN : ConfirmationDialogCancel(closes)
    \/ \E closes \in BOOLEAN : ConfirmationDialogBackdrop(closes)
    \/ \E closes \in BOOLEAN : ConfirmationDialogConfirm(closes)
    \/ TriggerDialog
    \/ \E name \in FolderNames : RerenderWithFolderName(name)
    \/ \E value \in TypedNames : setFilename(value)
    \/ \E value \in TypedExtensions : setExtension(value)
    \/ CancelDialog
    \/ \E cb \in BOOLEAN : NewFileDialogHandleSubmit(cb)
    \/ \E cb \in BOOLEAN : NewFolderDialogHandleSubmit(cb)
    \/ \E cb \in BOOLEAN : RenameFolderDialogHandleSubmit(cb)
    \/ \E cb \in BOOLEAN : RenameFileDialogHandleSubmit(cb)

SpecDialog == InitDialog /\ [][NextDialog]_vars

(***************************************************************************)
(* What the claims speak of: the occurrences of a file in a tree, each     *)
(* with its position (the item indices from the top-level folder down) and *)
(* the names of its ancestor folders below the top-level folder.           *)
(***************************************************************************)
RECURSIVE OccurrencesIn(_, _, _, _)
OccurrencesIn(f, items, pos, dirs) ==
    UNION {LET it == items[i] IN
           IF "folderName" \in DOMAIN it
           THEN OccurrencesIn(f, it.items, Append(pos, i), Append(dirs, it.folderName))
           ELSE IF it.filename = f.filename /\ it.fileExtension = f.fileExtension
                THEN {[pos |-> Append(pos, i), dirs |-> dirs]}
                ELSE {}
           : i \in 1..Len(items)}

Occurrences(f, folder) == OccurrencesIn(f, folder.items, <<>>, <<>>)

\* p comes before q in a pre-order walk that takes each folder's items in order
RECURSIVE Before(_, _)
Before(p, q) ==
    /\ p # <<>>
    /\ q # <<>>
    /\ \/ p[1] < q[1]
       \/ p[1] = q[1] /\ Before(Tail(p), Tail(q))

FirstOccurrence(f, folder) ==
    CHOOSE o \in Occurrences(f, folder) :
        \A o2 \in Occurrences(f, folder) \ {o} : Before(o.pos, o2.pos)

\* dirs[1] / ... / dirs[n] / seg
RECURSIVE UnderDirs(_, _)
UnderDirs(dirs, seg) ==
    IF dirs = <<>> THEN seg ELSE dirs[1] \o <<"/">> \o UnderDirs(Tail(dirs), seg)

\* filename.ext, or filename alone when the extension is empty
FinalSegment(f) ==
    IF f.fileExtension = <<>> THEN f.filename ELSE f.filename \o <<".">> \o f.fileExtension

RECURSIVE FilesIn(_)
FilesIn(items) ==
    UNION {IF "folderName" \in DOMAIN items[i] THEN FilesIn(items[i].items) ELSE {items[i]}
           : i \in 1..Len(items)}

(***************************************************************************)
(* Claims about findFilePath and generateFileId, under SpecPath.           *)
(***************************************************************************)
\* C1: when the searched file's (filename, fileExtension) occurs exactly once in
\* the tree, findFilePath returns its ancestor folder names below the top-level
\* folder, root to leaf, then filename(.ext), joined with "/".
C1_UniquePath ==
    ("findFilePath" \in done /\ Cardinality(Occurrences(file, data)) = 1)
        => \A o \in Occurrences(file, data) : res = Str(UnderDirs(o.dirs, FinalSegment(file)))

\* the file occurs once, under two differently named folders, and has an extension
C1_Witness ==
    /\ "findFilePath" \in done
    /\ Cardinality(Occurrences(file, data)) = 1
    /\ \E o \in Occurrences(file, data) : Len(o.dirs) = 2 /\ o.dirs[1] # o.dirs[2]
    /\ file.fileExtension # <<>>
    /\ ~res.isNull

\* C2: with several matching files, findFilePath returns the path of the one that
\* is first in the pre-order walk; the later matches do not change the result.
C2_FirstMatchWins ==
    ("findFilePath" \in done /\ Cardinality(Occurrences(file, data)) > 1)
        => res = Str(UnderDirs(FirstOccurrence(file, data).dirs, FinalSegment(file)))

\* a match inside a subfolder that is listed before a matching sibling file
C2_Witness ==
    /\ "findFilePath" \in done
    /\ \E o1, o2 \in Occurrences(file, data) :
          /\ Len(o1.pos) = 2 /\ Len(o2.pos) = 1 /\ o1.pos[1] < o2.pos[1]
          /\ o1 = FirstOccurrence(file, data)
    /\ ~res.isNull

\* C3: when no file of the tree has both the filename and the fileExtension of the
\* searched file, findFilePath returns null.
C3_NotFoundIsNull ==
    ("findFilePath" \in done /\ Occurrences(file, data) = {}) => res = Null

\* nothing matches although the tree holds a file that differs only in the case of
\* its filename or in whitespace around its extension
C3_Witness ==
    /\ "findFilePath" \in done
    /\ Occurrences(file, data) = {}
    /\ \E g \in FilesIn(data.items) :
          \/ g.filename = file.filename /\ Trim(g.fileExtension) = Trim(file.fileExtension)
          \/ g.filename # file.filename /\ g.fileExtension = file.fileExtension
    /\ res = Null

\* C10: generateFileId returns D/filename+suffix when the file is found under the
\* non-empty directory path D, and filename+suffix alone when it sits directly in
\* rootFolder's items; suffix is "." and the trimmed extension, or nothing.
C10_DirectoryPlusName ==
    ("generateFileId" \in done /\ Occurrences(file, data) # {})
        => LET suffix == IF Trim(file.fileExtension) = <<>> THEN <<>>
                         ELSE <<".">> \o Trim(file.fileExtension)
           IN fileId = UnderDirs(FirstOccurrence(file, data).dirs, file.filename \o suffix)

(***************************************************************************)
(* Claims about generateFileId as a function of tree and file.             *)
(***************************************************************************)
\* C11: generateFileId is injective on (ancestor-folder path, filename,
\* fileExtension): two files of the same tree whose triples differ in a component
\* get different ids (equal triples get equal ids, the id being computed from them).
C11_InjectiveOnTriples ==
    "generateFileId" \in done =>
        \A f2 \in FilesIn(data.items) :
            \A o1 \in Occurrences(file, data), o2 \in Occurrences(f2, data) :
                <<o1.dirs, file.filename, file.fileExtension>>
                        # <<o2.dirs, f2.filename, f2.fileExtension>>
                    => fileId # generateFileId(f2, data)

\* the contents a file can have, and the items with the content of every file that
\* has f's filename and fileExtension set to c
Contents == {<<>>, <<"x">>}

RECURSIVE WithContent(_, _, _)
WithContent(items, f, c) ==
    [i \in DOMAIN items |->
        IF "folderName" \in DOMAIN items[i]
        THEN [items[i] EXCEPT !.items = WithContent(items[i].items, f, c)]
        ELSE IF items[i].filename = f.filename /\ items[i].fileExtension = f.fileExtension
             THEN [items[i] EXCEPT !.content = c]
             ELSE items[i]]

\* C12: generateFileId depends on the tree's shape and on the file's filename and
\* fileExtension only: a second call on the same (tree, file) returns the same
\* string, and so does a call with another content in the argument, in the tree,
\* or in both.
C12_ContentIndependent ==
    "generateFileId" \in done =>
        /\ generateFileId(file, data) = fileId
        /\ \A c1, c2 \in Contents :
              generateFileId([file EXCEPT !.content = c1],
                             [data EXCEPT !.items = WithContent(data.items, file, c2)]) = fileId

\* the id of a file found inside a folder, which a content change in the argument
\* alone leaves as it is
C12_Witness ==
    /\ "generateFileId" \in done
    /\ \E o \in Occurrences(file, data) : o.dirs # <<>>
    /\ fileId # file.filename \o file.fileExtension
    /\ generateFileId([file EXCEPT !.content = <<"x">>], data) = fileId

\* items without the item at pos, and items with item it put at index k of the
\* items of the folder at position fp (of the top-level folder for fp = <<>>)
RECURSIVE RemoveAt(_, _)
RemoveAt(items, pos) ==
    IF Len(pos) = 1
    THEN SubSeq(items, 1, pos[1] - 1) \o SubSeq(items, pos[1] + 1, Len(items))
    ELSE [items EXCEPT ![pos[1]].items = RemoveAt(items[pos[1]].items, Tail(pos))]

RECURSIVE InsertAt(_, _, _, _)
InsertAt(items, fp, k, it) ==
    IF fp = <<>>
    THEN SubSeq(items, 1, k - 1) \o <<it>> \o SubSeq(items, k, Len(items))
    ELSE [items EXCEPT ![fp[1]].items = InsertAt(items[fp[1]].items, Tail(fp), k, it)]

\* the positions of the folders among items, <<>> standing for their holder
RECURSIVE FolderPositions(_, _)
FolderPositions(items, pos) ==
    {pos} \cup UNION {IF "folderName" \in DOMAIN items[i]
                      THEN FolderPositions(items[i].items, Append(pos, i))
                      ELSE {}
                      : i \in 1..Len(items)}

RECURSIVE ItemsAt(_, _)
ItemsAt(items, fp) == IF fp = <<>> THEN items ELSE ItemsAt(items[fp[1]].items, Tail(fp))

\* the trees that differ from folder by the one occurrence of f having been moved:
\* taken out of its place and put at some index of some folder's items
Moves(f, folder) ==
    LET o == CHOOSE x \in Occurrences(f, folder) : TRUE
        it == ItemsAt(folder.items, SubSeq(o.pos, 1, Len(o.pos) - 1))[o.pos[Len(o.pos)]]
        rest == RemoveAt(folder.items, o.pos)
    IN UNION {{[folder EXCEPT !.items = InsertAt(rest, fp, k, it)] :
                   k \in 1..(Len(ItemsAt(rest, fp)) + 1)}
              : fp \in FolderPositions(rest, <<>>)}

SubmitHandlers ==
    {"NewFileDialogHandleSubmit", "NewFolderDialogHandleSubmit",
     "RenameFolderDialogHandleSubmit", "RenameFileDialogHandleSubmit"}

\* the name a call of a dialog prop or of a tree callback is given by a submit
NameIn(c) ==
    CASE c.cb \in {"onCreateFile", "onCreateFolder", "onRename"} -> c.args[1]
      [] c.cb = "onAddFile" -> c.args[1].filename
      [] c.cb = "onAddFolder" -> c.args[1].folderName
      [] c.cb \in {"onRenameFile", "onRenameFolder"} -> c.args[2]

\* C15: a submit of the new-file, new-folder, rename-file or rename-folder dialog
\* while its name input is empty or all whitespace invokes neither onCreateFile,
\* onCreateFolder or onRename nor, through them, onAddFile, onAddFolder,
\* onRenameFile or onRenameFolder.
C15_BlankNameRejected ==
    [][(last'.handler \in SubmitHandlers /\ Trim(dialog.name) = <<>>) => calls' = <<>>]_vars

\* the new-folder dialog was submitted with a name of whitespace only, onAddFolder
\* being set: nothing was called and the dialog is still open
C15_Witness ==
    /\ last = Ran("NewFolderDialogHandleSubmit", TRUE)
    /\ dialog.name # <<>>
    /\ Trim(dialog.name) = <<>>
    /\ isOpen
    /\ calls = <<>>

\* C16: whenever a submit of a create or rename dialog invokes its callback, the
\* name it passes, and the name the tree's callback then receives, is the typed
\* name with leading and trailing whitespace removed: non-empty and with no
\* whitespace at either end.
C16_NamePassedTrimmed ==
    [][last'.handler \in SubmitHandlers =>
          \A i \in DOMAIN calls' :
              /\ NameIn(calls'[i]) = Trim(dialog.name)
              /\ NameIn(calls'[i]) # <<>>
              /\ Head(NameIn(calls'[i])) # " "
              /\ NameIn(calls'[i])[Len(NameIn(calls'[i]))] # " "]_vars

\* a folder was renamed to a name typed with whitespace around it
C16_Witness ==
    /\ last = Ran("RenameFolderDialogHandleSubmit", TRUE)
    /\ dialog.name # Trim(dialog.name)
    /\ Len(calls) = 2
    /\ calls[1].cb = "onRename"
    /\ calls[2].cb = "onRenameFolder"
    /\ calls[1].args[1] = Trim(dialog.name)
    /\ calls[2].args[2] = Trim(dialog.name)

(***************************************************************************)
(* What the claims about the explorer speak of: the item at a position,    *)
(* and the names of the folders between the top-level item and a node.     *)
(***************************************************************************)
RECURSIVE ItemAt(_, _)
ItemAt(it, pos) == IF pos = <<>> THEN it ELSE ItemAt(it.items[pos[1]], Tail(pos))

\* a1, ..., ak: the folders passed through below the top-level item to reach pos
RECURSIVE NamesAbove(_, _)
NamesAbove(it, pos) ==
    IF Len(pos) <= 1 THEN <<>>
    ELSE <<it.items[pos[1]].folderName>> \o NamesAbove(it.items[pos[1]], Tail(pos))

\* names[1] / ... / names[n], and "" for no name
JoinNames(names) ==
    IF names = <<>> THEN <<>>
    ELSE UnderDirs(SubSeq(names, 1, Len(names) - 1), names[Len(names)])

\* a1/.../ak: where the node at pos lives
OwnPath(pos) == JoinNames(NamesAbove(data, pos))

\* a1/.../ak/N: the inside of the folder node at pos
InsidePath(pos) == JoinNames(Append(NamesAbove(data, pos), ItemAt(data, pos).folderName))

\* the parentPath argument of an add, rename or delete call
ParentPathOf(c) == c.args[Len(c.args)]

RECURSIVE Segments(_, _)
\* the "/"-separated segments of a string, cur being the segment read so far
Segments(s, cur) ==
    IF s = <<>> THEN <<cur>>
    ELSE IF Head(s) = "/" THEN <<cur>> \o Segments(Tail(s), <<>>)
    ELSE Segments(Tail(s), Append(cur, Head(s)))

C6_FileParentPath ==
    /\ \A n \in FileNodes :
          /\ FileConfirmDeleteCalls(n, TRUE)
                = <<[cb |-> "onDeleteFile", from |-> "node", at |-> n.pos,
                     args |-> <<ItemAt(data, n.pos), OwnPath(n.pos)>>]>>
          /\ \A newName \in InputNames, newExt \in InputExtensions :
                FileRenameSubmitCalls(n, newName, newExt, TRUE)
                    = <<[cb |-> "onRenameFile", from |-> "node", at |-> n.pos,
                         args |-> <<ItemAt(data, n.pos), newName, newExt, OwnPath(n.pos)>>]>>
    /\ (last.handler \in {"FileConfirmDelete", "FileHandleRenameSubmit"} /\ last.provided)
          => /\ Len(calls) = 1
             /\ calls[1].cb = (IF last.handler = "FileConfirmDelete"
                               THEN "onDeleteFile" ELSE "onRenameFile")
             /\ calls[1].args[1] = ItemAt(data, calls[1].at)
             /\ ParentPathOf(calls[1]) = OwnPath(calls[1].at)

\* a file inside a folder was deleted: the call carries the folder's name alone
C6_Witness ==
    /\ last = Ran("FileConfirmDelete", TRUE)
    /\ Len(calls) = 1
    /\ Len(calls[1].at) = 2
    /\ ParentPathOf(calls[1]) = ItemAt(data, <<calls[1].at[1]>>).folderName

\* a name no folder of a tree and no input has
FreshName == <<"z">>

C9_NoRootAddWithoutRootFolder ==
    ~isRootFolder(data) =>
        /\ \A i \in DOMAIN calls : calls[i].cb \notin {"onAddFile", "onAddFolder"}
        /\ \A name \in InputNames, ext \in InputExtensions :
              RootCreateFileCalls(data, name, ext, TRUE) = <<>>
        /\ \A name \in InputNames : RootCreateFolderCalls(data, name, TRUE) = <<>>

\* the toolbar's new-file dialog was confirmed over a single file, onAddFile being set
C9_Witness ==
    /\ ~isRootFolder(data)
    /\ isValidItem(data)
    /\ last = Ran("RootHandleCreateFile", TRUE)
    /\ calls = <<>>
    /\ ~rootFlags.isNewFileDialogOpen

(***************************************************************************)
(* Claims about selection, the dialog flags, unset callbacks and invalid   *)
(* items, under Spec.                                                      *)
(***************************************************************************)
\* C17: a file node is marked selected exactly when a selectedFile is supplied
\* whose filename and fileExtension both equal the node's; where the node lies and
\* what its content is are not compared, so all file nodes with that pair are
\* selected together and a node differing in extension only is not.
C17_SelectedIffSamePair ==
    \A sel \in SelectedFiles :
        /\ \A n \in FileNodes :
              isSelected(n.item, sel)
                  <=> /\ sel # Undefined
                      /\ sel.filename = n.item.filename
                      /\ sel.fileExtension = n.item.fileExtension
        /\ \A n1, n2 \in FileNodes :
              (n1.item.filename = n2.item.filename
               /\ n1.item.fileExtension = n2.item.fileExtension)
                  => (isSelected(n1.item, sel) <=> isSelected(n2.item, sel))

\* two file nodes in different folders are selected by one selectedFile, and a
\* third node of the same filename and another extension is not
C17_Witness ==
    \E sel \in SelectedFiles, n1, n2, n3 \in FileNodes :
        /\ n1.path # n2.path
        /\ n1.item # n2.item
        /\ isSelected(n1.item, sel)
        /\ isSelected(n2.item, sel)
        /\ n3.item.filename = n1.item.filename
        /\ ~isSelected(n3.item, sel)

\* the flags: one per dialog of the toolbar and of every node
FlagSlots ==
    {<<"toolbar", <<>>, k>> : k \in DOMAIN rootFlags}
    \cup {<<"node", pos, k>> : pos \in DOMAIN flags, k \in DOMAIN ClosedFlags}

FlagNow(slot) == IF slot[1] = "toolbar" THEN rootFlags[slot[3]] ELSE flags[slot[2]][slot[3]]

\* whose flag it is: the toolbar's, a folder node's or a file node's
SlotScope(slot) ==
    IF slot[1] = "toolbar" THEN "toolbar"
    ELSE IF "folderName" \in DOMAIN ItemAt(data, IF "folderName" \in DOMAIN data
                                                 THEN slot[2] ELSE <<>>)
         THEN "folder" ELSE "file"

\* every handler that sets a flag: whose it is, which flag, and to what
FlagHandlers ==
    {[handler |-> "handleAddRootFile", scope |-> "toolbar", flag |-> "isNewFileDialogOpen", sets |-> TRUE],
     [handler |-> "handleAddRootFolder", scope |-> "toolbar", flag |-> "isNewFolderDialogOpen", sets |-> TRUE],
     [handler |-> "RootHandleCreateFile", scope |-> "toolbar", flag |-> "isNewFileDialogOpen", sets |-> FALSE],
     [handler |-> "RootHandleCreateFolder", scope |-> "toolbar", flag |-> "isNewFolderDialogOpen", sets |-> FALSE],
     [handler |-> "RootCloseNewFile", scope |-> "toolbar", flag |-> "isNewFileDialogOpen", sets |-> FALSE],
     [handler |-> "RootCloseNewFolder", scope |-> "toolbar", flag |-> "isNewFolderDialogOpen", sets |-> FALSE],
     [handler |-> "FileHandleRename", scope |-> "file", flag |-> "isRenameDialogOpen", sets |-> TRUE],
     [handler |-> "FileHandleDelete", scope |-> "file", flag |-> "isDeleteDialogOpen", sets |-> TRUE],
     [handler |-> "FileHandleRenameSubmit", scope |-> "file", flag |-> "isRenameDialogOpen", sets |-> FALSE],
     [handler |-> "FileConfirmDelete", scope |-> "file", flag |-> "isDeleteDialogOpen", sets |-> FALSE],
     [handler |-> "FileCloseRename", scope |-> "file", flag |-> "isRenameDialogOpen", sets |-> FALSE],
     [handler |-> "FileCancelDelete", scope |-> "file", flag |-> "isDeleteDialogOpen", sets |-> FALSE],
     [handler |-> "FolderHandleAddFile", scope |-> "folder", flag |-> "isNewFileDialogOpen", sets |-> TRUE],
     [handler |-> "FolderHandleAddFolder", scope |-> "folder", flag |-> "isNewFolderDialogOpen", sets |-> TRUE],
     [handler |-> "FolderHandleRename", scope |-> "folder", flag |-> "isRenameDialogOpen", sets |-> TRUE],
     [handler |-> "FolderHandleDelete", scope |-> "folder", flag |-> "isDeleteDialogOpen", sets |-> TRUE],
     [handler |-> "FolderHandleCreateFile", scope |-> "folder", flag |-> "isNewFileDialogOpen", sets |-> FALSE],
     [handler |-> "FolderHandleCreateFolder", scope |-> "folder", flag |-> "isNewFolderDialogOpen", sets |-> FALSE],
     [handler |-> "FolderHandleRenameSubmit", scope |-> "folder", flag |-> "isRenameDialogOpen", sets |-> FALSE],
     [handler |-> "FolderConfirmDelete", scope |-> "folder", flag |-> "isDeleteDialogOpen", sets |-> FALSE],
     [handler |-> "FolderCloseNewFile", scope |-> "folder", flag |-> "isNewFileDialogOpen", sets |-> FALSE],
     [handler |-> "FolderCloseNewFolder", scope |-> "folder", flag |-> "isNewFolderDialogOpen", sets |-> FALSE],
     [handler |-> "FolderCloseRename", scope |-> "folder", flag |-> "isRenameDialogOpen", sets |-> FALSE],
     [handler |-> "FolderCancelDelete", scope |-> "folder", flag |-> "isDeleteDialogOpen", sets |-> FALSE]}

\* the handler that ran in the step set the flag of slot to v
SetBy(handler, slot, v) ==
    \E row \in FlagHandlers :
        /\ row.handler = handler
        /\ row.scope = SlotScope(slot)
        /\ row.flag = slot[3]
        /\ row.sets = v

\* C18: the four flags of every node and the two of the toolbar start false; a
\* flag becomes true only by the menu action that opens its dialog, which leaves
\* it true; and the confirm handler and the cancel handler of a dialog leave its
\* flag false, whether or not the confirm handler invoked a callback.
C18_FlagLifecycle ==
    /\ \A slot \in FlagSlots : ~FlagNow(slot)
    /\ [][/\ \A slot \in FlagSlots :
                FlagNow(slot) # FlagNow(slot)' => SetBy(last'.handler, slot, FlagNow(slot)')
          /\ \A row \in FlagHandlers :
                row.handler = last'.handler =>
                    \E slot \in FlagSlots :
                        /\ SetBy(row.handler, slot, row.sets)
                        /\ FlagNow(slot)' = row.sets
                        /\ ~row.sets => FlagNow(slot)
                        /\ (~row.sets /\ calls' # <<>> /\ slot[1] = "node")
                              => calls'[1].at = slot[2]]_vars

\* a folder's new-folder dialog was confirmed with onAddFolder unset: nothing was
\* called and no flag is left true
C18_Witness ==
    /\ last = Ran("FolderHandleCreateFolder", FALSE)
    /\ calls = <<>>
    /\ FolderNodes # {}
    /\ \A slot \in FlagSlots : ~FlagNow(slot)

\* the handlers that invoke a callback prop when it is set
CallbackHandlers ==
    {"RootHandleCreateFile", "RootHandleCreateFolder", "FileConfirmDelete",
     "FileHandleRenameSubmit", "FileClick", "FolderConfirmDelete", "FolderHandleCreateFile",
     "FolderHandleCreateFolder", "FolderHandleRenameSubmit"}

\* C19: every callback prop is optional: when the prop a handler would invoke is
\* unset, the handler invokes no callback at all, no other one in its place either,
\* and the dialog it belongs to is closed all the same.
C19_UnsetCallbackIsNoOp ==
    [][(last'.handler \in CallbackHandlers /\ ~last'.provided) =>
          /\ calls' = <<>>
          /\ last'.handler # "FileClick" =>
                \E slot \in FlagSlots :
                    /\ SetBy(last'.handler, slot, FALSE)
                    /\ FlagNow(slot)
                    /\ ~FlagNow(slot)']_vars

\* a folder's delete was confirmed with onDeleteFolder unset
C19_Witness ==
    /\ last = Ran("FolderConfirmDelete", FALSE)
    /\ calls = <<>>
    /\ \A pos \in DOMAIN flags : ~flags[pos].isDeleteDialogOpen

\* the items of a tree that are valid, by position
RECURSIVE ValidPositions(_, _)
ValidPositions(it, pos) ==
    IF "isNull" \in DOMAIN it \/ "isUndefined" \in DOMAIN it \/ "typeof" \in DOMAIN it THEN {}
    ELSE IF "folderName" \in DOMAIN it
    THEN {pos} \cup UNION {ValidPositions(it.items[i], Append(pos, i)) : i \in 1..Len(it.items)}
    ELSE {pos}

\* C20: for an item that is null, undefined or no object the walker makes no node,
\* neither for it nor below it, and fails on nothing; so no handler of such a node
\* exists, and with such a top-level item no callback is invoked at all.
C20_InvalidItemRendersNothing ==
    /\ \A n \in Nodes : n.pos \in ValidPositions(data, <<>>)
    /\ DOMAIN flags = {n.pos : n \in Nodes}
    /\ (data \in {Null, Undefined, AString}) =>
          /\ Nodes = {}
          /\ flags = <<>>
          /\ calls = <<>>

\* over a null top-level item the toolbar's new-folder dialog was confirmed,
\* onAddFolder being set
C20_Witness ==
    /\ data = Null
    /\ last = Ran("RootHandleCreateFolder", TRUE)
    /\ calls = <<>>

(***************************************************************************)
(* Further claims about the dialogs, under SpecDialog.                     *)
(***************************************************************************)
\* the extension a call made by a submit of NewFileDialog carries
ExtensionIn(c) == IF c.cb = "onCreateFile" THEN c.args[2] ELSE c.args[1].fileExtension

\* C23: NewFileDialog never passes an empty extension: a submit that calls passes
\* the extension input trimmed, or "js" when that input is empty or all
\* whitespace, so the file onAddFile receives has a non-empty fileExtension.
C23_ExtensionNeverEmpty ==
    [][last'.handler = "NewFileDialogHandleSubmit" =>
          \A i \in DOMAIN calls' :
              /\ ExtensionIn(calls'[i])
                    = (IF Trim(dialog.extension) = <<>> THEN <<"j", "s">>
                       ELSE Trim(dialog.extension))
              /\ ExtensionIn(calls'[i]) # <<>>
              /\ Trim(ExtensionIn(calls'[i])) = ExtensionIn(calls'[i])]_vars

\* a file was created inside a folder with an extension typed after a blank
C23_Witness ==
    /\ last = Ran("NewFileDialogHandleSubmit", TRUE)
    /\ dialog.from = "node"
    /\ Len(calls) = 2
    /\ calls[2].cb = "onAddFile"
    /\ calls[2].args[1].fileExtension = <<"t">>

(***************************************************************************)
(* Claims about cancelling, under SpecDialog.                              *)
(***************************************************************************)
CancelHandlers ==
    {"CancelDialog", "DeleteDialogCancel", "ConfirmationDialogCancel",
     "ConfirmationDialogBackdrop"}

\* C24: cancelling never triggers a mutation: the Cancel button and the backdrop
\* of the create, rename, delete and confirmation dialogs invoke the close
\* handler only (onClose, setIsOpen(false), onCancel), never onCreateFile,
\* onCreateFolder, onRename or onConfirm, and so no add, rename or delete callback
\* of the tree; a dialog of the tree is closed by it.
C24_CancelInvokesCloseOnly ==
    [][last'.handler \in CancelHandlers =>
          /\ Len(calls') = 1
          /\ calls'[1].cb \in {"onClose", "setIsOpen", "onCancel"}
          /\ calls'[1].cb = "setIsOpen" => calls'[1].args = <<FALSE>>
          /\ dialog.from # "standalone" => ~isOpen'
          /\ dialog' = dialog \/ dialog.from = "standalone"]_vars

\* the delete dialog of a folder was cancelled
C24_Witness ==
    /\ last = Ran("DeleteDialogCancel", FALSE)
    /\ dialog.kind = "DeleteDialog"
    /\ IsFolder(NodeAt(dialog.at).item)
    /\ ~isOpen
    /\ Len(calls) = 1
    /\ calls[1].cb = "setIsOpen"

C27_DraftFollowsCurrentName ==
    [][dialog.kind = "RenameFolderDialog" =>
          /\ (~isOpen /\ isOpen') => dialog'.name = currentFolderName(dialog)'
          /\ (isOpen /\ isOpen' /\ currentFolderName(dialog)' # currentFolderName(dialog))
                => dialog'.name = currentFolderName(dialog)'
          /\ (isOpen /\ isOpen' /\ currentFolderName(dialog)' = currentFolderName(dialog))
                => \/ dialog'.name = dialog.name
                   \/ last'.handler = "setFilename"]_vars

\* the folder was renamed under an open dialog in which something else had been
\* typed, and the draft is the new name
C27_Witness ==
    /\ dialog.kind = "RenameFolderDialog"
    /\ last.handler = "RerenderWithFolderName"
    /\ isOpen
    /\ dialog.name = currentFolderName(dialog)
    /\ Len(dialog.at) = 2

(***************************************************************************)
(* The drafts of the create dialogs after a submit, under SpecDialog.      *)
(***************************************************************************)
\* how many times the dialog invoked its prop cb in the last handler
InvocationsOf(cb, made) ==
    Cardinality({i \in DOMAIN made : made[i].cb = cb /\ made[i].from = "dialog"})

\* C28: a submit of NewFileDialog or NewFolderDialog with a non-blank name
\* invokes the create callback exactly once and not onClose, and leaves the
\* initial draft (filename "" and extension "js"; folder name "", the Create
\* button disabled); a submit with a blank name leaves the draft as it was.
C28_DraftResetAfterSubmit ==
    [][/\ last'.handler = "NewFileDialogHandleSubmit" =>
            IF Truthy(Trim(dialog.name))
            THEN /\ dialog'.name = EmptyString
                 /\ dialog'.extension = DefaultExtension
                 /\ InvocationsOf("onCreateFile", calls') = 1
                 /\ InvocationsOf("onClose", calls') = 0
            ELSE /\ dialog' = dialog
                 /\ InvocationsOf("onCreateFile", calls') = 0
       /\ last'.handler = "NewFolderDialogHandleSubmit" =>
            IF Truthy(Trim(dialog.name))
            THEN /\ dialog'.name = EmptyString
                 /\ CreateDisabled(dialog)'
                 /\ InvocationsOf("onCreateFolder", calls') = 1
                 /\ InvocationsOf("onClose", calls') = 0
            ELSE /\ dialog' = dialog
                 /\ InvocationsOf("onCreateFolder", calls') = 0]_vars

\* a file with a typed extension other than "js" was created, and the drafts
\* are the initial ones again
C28_Witness ==
    /\ last.handler = "NewFileDialogHandleSubmit"
    /\ InvocationsOf("onCreateFile", calls) = 1
    /\ calls[1].args[2] = <<"t">>
    /\ dialog.name = EmptyString
    /\ dialog.extension = DefaultExtension

(***************************************************************************)
(* Further claims about the dialog flags, under Spec.                      *)
(***************************************************************************)
\* the flag of the dialog whose confirm handler invokes callback cb
FlagOfCallback(cb) ==
    CASE cb = "onAddFile" -> "isNewFileDialogOpen"
      [] cb = "onAddFolder" -> "isNewFolderDialogOpen"
      [] cb \in {"onRenameFile", "onRenameFolder"} -> "isRenameDialogOpen"
      [] cb \in {"onDeleteFile", "onDeleteFolder"} -> "isDeleteDialogOpen"

\* the flag that gates call c: of the toolbar or of the node the call was made from
SlotOfCall(c) == <<c.from, c.at, FlagOfCallback(c.cb)>>

\* C25: an add, rename or delete callback is invoked only in a state where the
\* flag of the dialog of that node (or of the toolbar) is true; a confirm makes
\* exactly one invocation, and the flag is false after it, so a second invocation
\* for the same node and action needs a new trigger first.
C25_CallbackGatedByFlag ==
    [][\A i \in DOMAIN calls' :
          calls'[i].cb # "onFileSelect" =>
              /\ Len(calls') = 1
              /\ \E slot \in FlagSlots :
                    /\ slot = SlotOfCall(calls'[i])
                    /\ FlagNow(slot)
                    /\ ~FlagNow(slot)'
                    /\ SetBy(last'.handler, slot, FALSE)]_vars

\* a file in a folder was renamed: one call, and its rename flag is false again
C25_Witness ==
    /\ last = Ran("FileHandleRenameSubmit", TRUE)
    /\ Len(calls) = 1
    /\ calls[1].cb = "onRenameFile"
    /\ Len(calls[1].at) = 2
    /\ ~flags[calls[1].at].isRenameDialogOpen

C21_TreeNeverModified == [][data' = data]_vars

\* both lib functions were called on the tree and an add inside a folder of it was
\* reported to onAddFile, the folder still being without the new file
C21_Witness ==
    /\ done = {"findFilePath", "generateFileId"}
    /\ last = Ran("FolderHandleCreateFile", TRUE)
    /\ Len(calls) = 1
    /\ calls[1].cb = "onAddFile"
    /\ calls[1].args[1] \notin Range(ItemAt(data, calls[1].at).items)

\* the positions of the items below the top-level folder, invalid ones included
RECURSIVE ItemPositions(_, _)
ItemPositions(items, pos) ==
    UNION {{Append(pos, i)} \cup (IF "folderName" \in DOMAIN items[i]
                                  THEN ItemPositions(items[i].items, Append(pos, i))
                                  ELSE {})
           : i \in DOMAIN items}

Extended(P, f) ==
    IF P = EmptyString THEN FinalSegment(f) ELSE P \o Slash \o FinalSegment(f)

\* C30: for a top-level folder and a file F whose (filename, fileExtension)
\* occurs exactly once below it, findFilePath(F, tree) is the parentPath P that
\* the walker passes to onDeleteFile and onRenameFile for F, extended with F's
\* final segment: P/segment, and the segment alone when P is ""; P is made of
\* the names of the folders above F below the top-level folder, whose own
\* name is in neither.
C30_ResolverAgreesWithWalker ==
    \A i \in DOMAIN calls :
        (/\ calls[i].cb \in {"onDeleteFile", "onRenameFile"}
         /\ IsFolder(data)
         /\ Cardinality(Occurrences(calls[i].args[1], data)) = 1)
        => LET F == calls[i].args[1]
               P == ParentPathOf(calls[i]) IN
           /\ findFilePath(F, data) = Str(Extended(P, F))
           /\ P = OwnPath(calls[i].at)
           /\ (F = file /\ "findFilePath" \in done) => res = Str(Extended(P, F))

\* findFilePath was called for the one file of its name, which lies in a folder,
\* and the walker has reported the deletion of that file with the folder's path
C30_Witness ==
    /\ "findFilePath" \in done
    /\ last = Ran("FileConfirmDelete", TRUE)
    /\ Len(calls) = 1
    /\ calls[1].args[1] = file
    /\ Cardinality(Occurrences(file, data)) = 1
    /\ ParentPathOf(calls[1]) # EmptyString
    /\ res = Str(ParentPathOf(calls[1]) \o Slash \o FinalSegment(file))

====
